---- MODULE Spec2Model ----
(***************************************************************************)
(* A model of the lithophane generator (src/src/lithophane.rs):            *)
(* generate_lithophane, generate_preview, generate_point_cloud with its    *)
(* nested step_iter_with_size, generate_lithophane_mesh with its closure   *)
(* get_px_depth, three_points_to_triangle, cross_product and               *)
(* normalize_to_unit_vector.                                               *)
(*                                                                         *)
(* Numbers.  Grid indices and the values of the coordinate functions are   *)
(* small integers, which f32 represents exactly, so the vector arithmetic  *)
(* on them is exact.  A unit vector is kept as [num, len2], meaning        *)
(* num / sqrt(len2).  The depth arithmetic of get_px_depth is modelled in  *)
(* IEEE-754 binary32 with round-to-nearest-even (F32Add, F32Sub, F32Mul,   *)
(* F32Div below), a float being [m, e] with value m * 2^e.                 *)
(***************************************************************************)
EXTENDS Integers, Sequences, FiniteSets, TLC

VARIABLES build, call, pc, point_cloud, px_vertices, triangles, result

vars == <<build, call, pc, point_cloud, px_vertices, triangles, result>>

(***************************************************************************)
(* Bounds of the model.                                                    *)
(***************************************************************************)
MaxDim == 3

MaxStep == 2

MaxLen == 15

MaxStepLen == 4

MaxCoord == 2

(***************************************************************************)
(* Small helpers.                                                          *)
(***************************************************************************)
Abs(n) == IF n < 0 THEN -n ELSE n

Max2(a, b) == IF a < b THEN b ELSE a

RECURSIVE Gcd(_, _)
Gcd(a, b) == IF b = 0 THEN a ELSE Gcd(b, a % b)

RECURSIVE FlatMap(_, _, _)
\* The concatenation F(lo) \o F(lo + 1) \o ... \o F(hi - 1): a `for i in lo..hi` loop
\* pushing the elements of F(i) onto a Vec.
FlatMap(F(_), lo, hi) == IF lo >= hi THEN <<>> ELSE F(lo) \o FlatMap(F, lo + 1, hi)

RECURSIVE FirstBad(_, _, _)
\* The first index in lo..hi-1 at which Bad holds, or hi when there is none: where a
\* loop whose body ends in `?` stops.
FirstBad(Bad(_), lo, hi) ==
    IF lo >= hi THEN hi ELSE IF Bad(lo) THEN lo ELSE FirstBad(Bad, lo + 1, hi)

(***************************************************************************)
(* Vec3 arithmetic (pk_stl::geometry::Vec3 and lithophane.rs:295-307).     *)
(***************************************************************************)
VSub(a, b) == <<a[1] - b[1], a[2] - b[2], a[3] - b[3]>>

VAdd(a, b) == <<a[1] + b[1], a[2] + b[2], a[3] + b[3]>>

VScale(a, k) == <<a[1] * k, a[2] * k, a[3] * k>>

Dot(a, b) == a[1] * b[1] + a[2] * b[2] + a[3] * b[3]

ZeroVec == <<0, 0, 0>>

cross_product(a, b) ==
    <<a[2] * b[3] - b[2] * a[3], a[3] * b[1] - b[3] * a[1], a[1] * b[2] - b[1] * a[2]>>

InvalidPointsError == [kind |-> "Err"]

\* v / length with length = sqrt(v.v), kept exactly: the primitive integer direction
\* num and len2 = num.num, the vector being num / sqrt(len2).
normalize_to_unit_vector(v) ==
    IF Dot(v, v) = 0
    THEN InvalidPointsError
    ELSE LET g == Gcd(Gcd(Abs(v[1]), Abs(v[2])), Abs(v[3]))
             n == <<v[1] \div g, v[2] \div g, v[3] \div g>>
         IN [kind |-> "Ok", num |-> n, len2 |-> Dot(n, n)]

\* Mutant of three_points_to_triangle: the two edge vectors are exchanged.
three_points_to_triangle_Swapped(points) ==
    LET n == normalize_to_unit_vector(
                 cross_product(VSub(points[3], points[1]), VSub(points[2], points[1])))
    IN IF n.kind = "Err"
       THEN InvalidPointsError
       ELSE [kind |-> "Ok", normal |-> [num |-> n.num, len2 |-> n.len2],
             vertices |-> <<points[1], points[2], points[3]>>]

three_points_to_triangle(points) ==
    LET n == normalize_to_unit_vector(
                 cross_product(VSub(points[2], points[1]), VSub(points[3], points[1])))
    IN IF n.kind = "Err"
       THEN InvalidPointsError
       ELSE [kind |-> "Ok", normal |-> [num |-> n.num, len2 |-> n.len2],
             vertices |-> <<points[1], points[2], points[3]>>]

(***************************************************************************)
(* IEEE-754 binary32 arithmetic, round-to-nearest-even, for the f32        *)
(* expression of get_px_depth.  A float is [m |-> mantissa, e |-> exp],    *)
(* its value m * 2^e, with m = 0 and e = 0 or 2^23 <= |m| < 2^24.          *)
(* Subnormals, infinities and NaN are outside the values the model draws.  *)
(***************************************************************************)
RECURSIVE Pow2(_)
Pow2(n) == IF n <= 0 THEN 1 ELSE 2 * Pow2(n - 1)

F32Zero == [m |-> 0, e |-> 0]

\* mag \div 2^k rounded to nearest, ties to even (k >= 1).
RoundShift(mag, k) ==
    LET q == mag \div Pow2(k)
        r == mag % Pow2(k)
        half == Pow2(k - 1)
    IN IF r > half \/ (r = half /\ q % 2 = 1) THEN q + 1 ELSE q

RECURSIVE BitLen(_)
BitLen(n) == IF n = 0 THEN 0 ELSE 1 + BitLen(n \div 2)

\* The float nearest to sign * mag * 2^e (0 <= mag < 2^31).
F32Round(sign, mag, e) ==
    IF mag = 0 THEN F32Zero
    ELSE LET bits == BitLen(mag)
         IN IF bits <= 24
            THEN [m |-> sign * mag * Pow2(24 - bits), e |-> e - (24 - bits)]
            ELSE LET k == bits - 24
                     q == RoundShift(mag, k)
                 IN IF q = Pow2(24)
                    THEN [m |-> sign * Pow2(23), e |-> e + k + 1]
                    ELSE [m |-> sign * q, e |-> e + k]

Sign(n) == IF n < 0 THEN -1 ELSE 1

\* mag \div 2^k with the lost bits or-ed into the lowest bit (sticky).
JamShift(mag, k) ==
    IF k >= 31 THEN (IF mag = 0 THEN 0 ELSE 1)
    ELSE LET q == mag \div Pow2(k)
         IN IF mag % Pow2(k) # 0 /\ q % 2 = 0 THEN q + 1 ELSE q

F32Add(a, b) ==
    IF a.m = 0 THEN b
    ELSE IF b.m = 0 THEN a
    ELSE LET hi == IF a.e >= b.e THEN a ELSE b
             lo == IF a.e >= b.e THEN b ELSE a
             d == hi.e - lo.e
         IN IF d <= 6
            THEN LET s == hi.m * Pow2(d) + lo.m
                 IN F32Round(Sign(s), Abs(s), lo.e)
            ELSE LET s == hi.m * 32 + Sign(lo.m) * JamShift(Abs(lo.m), d - 5)
                 IN F32Round(Sign(s), Abs(s), hi.e - 5)

F32Neg(a) == [m |-> -a.m, e |-> a.e]

F32Sub(a, b) == F32Add(a, F32Neg(b))

F32Mul(a, b) ==
    IF a.m = 0 \/ b.m = 0 THEN F32Zero
    ELSE LET am == Abs(a.m)
             bm == Abs(b.m)
             ah == am \div 4096
             al == am % 4096
             bh == bm \div 4096
             bl == bm % 4096
             mid == ah * bl + al * bh
             t == al * bl + (mid % 4096) * 4096
             low == t % 16777216
             high == ah * bh + mid \div 4096 + t \div 16777216
             sign == Sign(a.m) * Sign(b.m)
             e == a.e + b.e
             wide == high >= 8388608
             q == IF wide THEN high ELSE high * 2 + low \div 8388608
             r == IF wide THEN low ELSE low % 8388608
             half == IF wide THEN 8388608 ELSE 4194304
             qr == IF r > half \/ (r = half /\ q % 2 = 1) THEN q + 1 ELSE q
             er == IF wide THEN e + 24 ELSE e + 23
         IN IF qr = 16777216
            THEN [m |-> sign * 8388608, e |-> er + 1]
            ELSE [m |-> sign * qr, e |-> er]

RECURSIVE DivBits(_, _, _, _)
\* n more quotient bits of rem / bm by long division: <<quotient, remainder>>.
DivBits(q, rem, bm, n) ==
    IF n = 0 THEN <<q, rem>>
    ELSE LET r2 == rem * 2
         IN IF r2 >= bm THEN DivBits(q * 2 + 1, r2 - bm, bm, n - 1)
            ELSE DivBits(q * 2, r2, bm, n - 1)

\* b is not zero.
F32Div(a, b) ==
    IF a.m = 0 THEN F32Zero
    ELSE LET am == Abs(a.m)
             bm == Abs(b.m)
             q0 == IF am >= bm THEN 1 ELSE 0
             d == DivBits(q0, am - q0 * bm, bm, 26)
             mag == d[1] * 2 + (IF d[2] # 0 THEN 1 ELSE 0)
         IN F32Round(Sign(a.m) * Sign(b.m), mag, a.e - b.e - 27)

\* `n as f32` for |n| < 2^24.
IntToF32(n) == F32Round(Sign(n), Abs(n), 0)

F32Lt(a, b) ==
    IF a.m = 0 THEN b.m > 0
    ELSE IF b.m = 0 THEN a.m < 0
    ELSE IF Sign(a.m) # Sign(b.m) THEN a.m < 0
    ELSE IF a.m > 0 THEN a.e < b.e \/ (a.e = b.e /\ a.m < b.m)
    ELSE a.e > b.e \/ (a.e = b.e /\ a.m < b.m)

F32Le(a, b) == a = b \/ F32Lt(a, b)

\* The integer a float is, for a float that is a small integer.
F32ToInt(a) ==
    IF a.m = 0 THEN 0
    ELSE IF a.e >= 0 THEN a.m * Pow2(a.e)
    ELSE a.m \div Pow2(-a.e)

F32IsInt(a) == a.m = 0 \/ a.e >= 0 \/ (a.e > -24 /\ Abs(a.m) % Pow2(-a.e) = 0)

\* Mutant of get_px_depth: the intensity is not inverted.
get_px_depth_NotInverted(white_depth, black_depth, gray_value) ==
    F32Add(white_depth,
           F32Mul(F32Div(IntToF32(gray_value), IntToF32(255)),
                  F32Sub(black_depth, white_depth)))

\* white_depth + (255 - gray_value) as f32 / 255.0 * (black_depth - white_depth)
get_px_depth(white_depth, black_depth, gray_value) ==
    F32Add(white_depth,
           F32Mul(F32Div(IntToF32(255 - gray_value), IntToF32(255)),
                  F32Sub(black_depth, white_depth)))


(***************************************************************************)
(* The coordinate functions: the f32 closures handed to                    *)
(* generate_lithophane and generate_preview (lib.rs:32-34), here integer   *)
(* valued expressions in x, y, w, h.                                       *)
(***************************************************************************)
XExprs == {"x", "-x", "0", "max(x,0)", "x+y+x*y"}

YExprs == {"y", "max(y,0)", "y*y", "x+x*x+y*y"}

ZExprs == {"0"}

Eval(expr, x, y, w, h) ==
    CASE expr = "x" -> x
      [] expr = "y" -> y
      [] expr = "-x" -> -x
      [] expr = "0" -> 0
      [] expr = "max(x,0)" -> Max2(x, 0)
      [] expr = "max(y,0)" -> Max2(y, 0)
      [] expr = "y*y" -> y * y
      [] expr = "x+y+x*y" -> x + y + x * y
      [] expr = "x+x*x+y*y" -> x + x * x + y * y

(***************************************************************************)
(* step_iter_with_size (lithophane.rs:94-108).                             *)
(***************************************************************************)
\* (lo..hi).step_by(step)
RangeStep(lo, hi, step) ==
    IF hi <= lo THEN <<>>
    ELSE [k \in 1..((hi - lo + step - 1) \div step) |-> lo + (k - 1) * step]

\* (2^32 - 1) % step: what `(length - 1) % step` is once `length - 1` has wrapped.
U32MaxMod(step) == ((65536 % step) * (65536 % step) + step - 1) % step

Panic == [kind |-> "Panic"]

\* Mutant of step_iter_with_size: the push of length - 1 (lines 102-104) is left out.
step_iter_with_size_NoSnap(length, step, b) ==
    IF step = 0
    THEN Panic
    ELSE IF length = 0 /\ b = "debug"
    THEN Panic
    ELSE LET v1 == RangeStep(-step, length, step)
         IN IF Len(v1) < 2
            THEN Panic
            ELSE [kind |-> "Ok", v |-> Append(v1, (length - 1) * 2 - v1[Len(v1) - 1])]

\* b is the build: "debug" panics on integer overflow, "release" wraps.
step_iter_with_size(length, step, b) ==
    IF step = 0
    THEN Panic
    ELSE IF length = 0 /\ b = "debug"
    THEN Panic
    ELSE LET v0 == RangeStep(-step, length, step)
             rem == IF length = 0 THEN U32MaxMod(step) ELSE (length - 1) % step
             v1 == IF rem # 0 THEN Append(v0, length - 1) ELSE v0
         IN IF Len(v1) < 2
            THEN Panic
            ELSE [kind |-> "Ok", v |-> Append(v1, (length - 1) * 2 - v1[Len(v1) - 1])]

(***************************************************************************)
(* generate_point_cloud (lithophane.rs:74-160).                            *)
(***************************************************************************)
\* norm1 + norm2 for two unit vectors of the same len2 (the surfaces the model draws
\* lie in a plane z = const, so every cross product is a multiple of the z axis).
UnitSum(n1, n2) ==
    CASE n1.len2 = n2.len2 -> VAdd(n1.num, n2.num)

\* The bordered grid: one vertex per (y_i, x_i) of height_range x width_range, row-major.
GridVertices(x_fn, y_fn, z_fn, width, height, width_range, height_range) ==
    LET ewc == Len(width_range)
        ehc == Len(height_range)
    IN [i \in 1..(ewc * ehc) |->
           LET y_i == height_range[((i - 1) \div ewc) + 1]
               x_i == width_range[((i - 1) % ewc) + 1]
           IN <<Eval(x_fn, x_i, y_i, width, height),
                Eval(y_fn, x_i, y_i, width, height),
                Eval(z_fn, x_i, y_i, width, height)>>]

\* Mutant of VertexNormal: the second estimate (upper and left vectors) is left out.
VertexNormal_FirstEstimateOnly(vertices, ewc, y_i, x_i) ==
    LET v == vertices[(y_i + 1) * ewc + 1 + x_i + 1]
    IN normalize_to_unit_vector(cross_product(
           VSub(vertices[(y_i + 2) * ewc + 1 + x_i + 1], v),
           VSub(vertices[(y_i + 1) * ewc + 2 + x_i + 1], v)))

\* The body of the normal loop at interior position (y_i, x_i) (lines 131-140).
VertexNormal(vertices, ewc, y_i, x_i) ==
    LET v == vertices[(y_i + 1) * ewc + 1 + x_i + 1]
        norm1 == normalize_to_unit_vector(cross_product(
                     VSub(vertices[(y_i + 2) * ewc + 1 + x_i + 1], v),
                     VSub(vertices[(y_i + 1) * ewc + 2 + x_i + 1], v)))
        norm2 == normalize_to_unit_vector(cross_product(
                     VSub(vertices[y_i * ewc + 1 + x_i + 1], v),
                     VSub(vertices[(y_i + 1) * ewc + x_i + 1], v)))
    IN IF norm1.kind = "Err" THEN InvalidPointsError
       ELSE IF norm2.kind = "Err" THEN InvalidPointsError
       ELSE normalize_to_unit_vector(UnitSum(norm1, norm2))

\* The filter of lines 148-153 on the 0-based index i.
KeepVertex(i, ewc, ehc) ==
    /\ i >= ewc
    /\ i < ewc * (ehc - 1)
    /\ i % ewc # 0
    /\ i % ewc # ewc - 1

StripBorder(vertices, ewc, ehc) ==
    LET idx == SelectSeq([i \in 1..Len(vertices) |-> i - 1],
                         LAMBDA i : KeepVertex(i, ewc, ehc))
    IN [k \in 1..Len(idx) |-> vertices[idx[k] + 1]]

generate_point_cloud(x_fn, y_fn, z_fn, width, height, step, b) ==
    LET width_range == step_iter_with_size(width, step, b)
    IN IF width_range.kind = "Panic" THEN Panic
       ELSE LET height_range == step_iter_with_size(height, step, b)
            IN IF height_range.kind = "Panic" THEN Panic
               ELSE LET ewc == Len(width_range.v)
                        ehc == Len(height_range.v)
                        vertices == GridVertices(x_fn, y_fn, z_fn, width, height,
                                                 width_range.v, height_range.v)
                        wc == ewc - 2
                        hc == ehc - 2
                        normals == [k \in 1..(wc * hc) |->
                                       VertexNormal(vertices, ewc, (k - 1) \div wc,
                                                    (k - 1) % wc)]
                    IN IF \E k \in 1..(wc * hc) : normals[k].kind = "Err"
                       THEN InvalidPointsError
                       ELSE [kind |-> "Ok",
                             vertices |-> StripBorder(vertices, ewc, ehc),
                             vertex_normals |->
                                 [k \in 1..(wc * hc) |->
                                     [num |-> normals[k].num, len2 |-> normals[k].len2]],
                             width |-> wc,
                             height |-> hc]

(***************************************************************************)
(* Mesh assembly.  A vertex of the mesh is named <<layer, i>>: layer "b"   *)
(* is point_cloud.vertices[i], layer "p" is px_vertices[i] (i 0-based).    *)
(* Each loop body is the sequence of the vertex triples it pushes; a       *)
(* triangle of the model keeps, beside the normal and the vertices the     *)
(* code stores, the names of its three vertices (ids).                     *)
(***************************************************************************)
B(i) == <<"b", i>>

P(i) == <<"p", i>>

\* Mutant of PreviewBlock: the vertex order of the backing loop (lines 183-192).
PreviewBlock_BackingWinding(width, y_i, x_i) ==
    << <<B(y_i * width + x_i), B((y_i + 1) * width + x_i + 1), B((y_i + 1) * width + x_i)>>,
       <<B(y_i * width + x_i), B(y_i * width + x_i + 1), B((y_i + 1) * width + x_i + 1)>> >>

\* generate_preview, lines 47-56
PreviewBlock(width, y_i, x_i) ==
    << <<B(y_i * width + x_i), B((y_i + 1) * width + x_i), B((y_i + 1) * width + x_i + 1)>>,
       <<B(y_i * width + x_i), B((y_i + 1) * width + x_i + 1), B(y_i * width + x_i + 1)>> >>

\* Mutant of BackingBlock: the vertex order of the front loop (lines 207-216).
BackingBlock_FrontWinding(width, y_i, x_i) ==
    << <<B(y_i * width + x_i), B((y_i + 1) * width + x_i), B((y_i + 1) * width + x_i + 1)>>,
       <<B(y_i * width + x_i), B((y_i + 1) * width + x_i + 1), B(y_i * width + x_i + 1)>> >>

\* generate_lithophane_mesh, lines 183-192
BackingBlock(width, y_i, x_i) ==
    << <<B(y_i * width + x_i), B((y_i + 1) * width + x_i + 1), B((y_i + 1) * width + x_i)>>,
       <<B(y_i * width + x_i), B(y_i * width + x_i + 1), B((y_i + 1) * width + x_i + 1)>> >>

\* lines 207-216
FrontBlock(width, y_i, x_i) ==
    << <<P(y_i * width + x_i), P((y_i + 1) * width + x_i), P((y_i + 1) * width + x_i + 1)>>,
       <<P(y_i * width + x_i), P((y_i + 1) * width + x_i + 1), P(y_i * width + x_i + 1)>> >>

\* lines 222-231
TopWallPair(x_i) ==
    << <<B(x_i), P(x_i), P(x_i + 1)>>,
       <<B(x_i), P(x_i + 1), B(x_i + 1)>> >>

\* lines 236-245
BottomWallPair(x_i) ==
    << <<B(x_i), P(x_i + 1), P(x_i)>>,
       <<B(x_i), B(x_i + 1), P(x_i + 1)>> >>

\* lines 250-261
LeftWallPair(width, y_i) ==
    LET current_index == y_i * width
        lower_index == (y_i + 1) * width
    IN << <<B(current_index), B(lower_index), P(lower_index)>>,
          <<B(current_index), P(lower_index), P(current_index)>> >>

\* Mutant of RightWallPair: the indices of the left column (lines 250-251).
RightWallPair_LeftColumn(width, y_i) ==
    LET current_index == y_i * width
        lower_index == (y_i + 1) * width
    IN << <<B(current_index), P(lower_index), B(lower_index)>>,
          <<B(current_index), P(current_index), P(lower_index)>> >>

\* lines 266-277
RightWallPair(width, y_i) ==
    LET current_index == (y_i + 1) * width - 1
        lower_index == (y_i + 2) * width - 1
    IN << <<B(current_index), P(lower_index), B(lower_index)>>,
          <<B(current_index), P(current_index), P(lower_index)>> >>

\* Mutant of PreviewIds: the inner loop stops one block before the last column.
PreviewIds_Short(width, height) ==
    FlatMap(LAMBDA y_i : FlatMap(LAMBDA x_i : PreviewBlock(width, y_i, x_i), 0, width - 2),
            0, height - 1)

\* The loops, as the triples they push in order.
PreviewIds(width, height) ==
    FlatMap(LAMBDA y_i : FlatMap(LAMBDA x_i : PreviewBlock(width, y_i, x_i), 0, width - 1),
            0, height - 1)

BackingIds(width, height) ==
    FlatMap(LAMBDA y_i : FlatMap(LAMBDA x_i : BackingBlock(width, y_i, x_i), 0, width - 1),
            0, height - 1)

FrontIds(width, height) ==
    FlatMap(LAMBDA y_i : FlatMap(LAMBDA x_i : FrontBlock(width, y_i, x_i), 0, width - 1),
            0, height - 1)

\* Mutant of TopWallIds: the loop stops one pair early.
TopWallIds_Short(width, height) == FlatMap(TopWallPair, 0, width - 2)

TopWallIds(width, height) == FlatMap(TopWallPair, 0, width - 1)

BottomWallIds(width, height) ==
    FlatMap(BottomWallPair, (height - 1) * width, height * width - 1)

LeftWallIds(width, height) == FlatMap(LAMBDA y_i : LeftWallPair(width, y_i), 0, height - 1)

RightWallIds(width, height) == FlatMap(LAMBDA y_i : RightWallPair(width, y_i), 0, height - 1)

\* The Vec3 a vertex name stands for (an index past the end of the Vec panics).
InBounds(id, verts, px) ==
    id[2] + 1 <= Len(IF id[1] = "b" THEN verts ELSE px)

Point(id, verts, px) == IF id[1] = "b" THEN verts[id[2] + 1] ELSE px[id[2] + 1]

\* three_points_to_triangle([..])? on one triple
BuildTriangle(ids, verts, px) ==
    IF \E k \in 1..3 : ~InBounds(ids[k], verts, px)
    THEN Panic
    ELSE LET t == three_points_to_triangle(
                      <<Point(ids[1], verts, px), Point(ids[2], verts, px),
                        Point(ids[3], verts, px)>>)
         IN IF t.kind = "Err" THEN InvalidPointsError
            ELSE [kind |-> "Ok", normal |-> t.normal, vertices |-> t.vertices, ids |-> ids]

\* Mutant of BuildAll: a triangle that cannot be built is skipped instead of returned.
BuildAll_SkipDegenerate(idseq, verts, px) ==
    LET built == [k \in 1..Len(idseq) |-> BuildTriangle(idseq[k], verts, px)]
        kept == SelectSeq(built, LAMBDA t : t.kind = "Ok")
    IN [kind |-> "Ok",
        triangles |-> [k \in 1..Len(kept) |->
                         [normal |-> kept[k].normal, vertices |-> kept[k].vertices,
                          ids |-> kept[k].ids]]]

\* One loop of pushes: the triangles in order, or the outcome of the first push that
\* does not succeed.
BuildAll(idseq, verts, px) ==
    LET built == [k \in 1..Len(idseq) |-> BuildTriangle(idseq[k], verts, px)]
        stop == FirstBad(LAMBDA k : built[k].kind # "Ok", 1, Len(idseq) + 1)
    IN IF stop <= Len(idseq)
       THEN built[stop]
       ELSE [kind |-> "Ok",
             triangles |-> [k \in 1..Len(idseq) |->
                              [normal |-> built[k].normal, vertices |-> built[k].vertices,
                               ids |-> built[k].ids]]]

(***************************************************************************)
(* The image (image::GrayImage) and the pixel vertices (lines 197-202).    *)
(***************************************************************************)
ImageKinds == {"white", "black", "checker", "stripes"}

Pixel(kind, x, y) ==
    CASE kind = "white" -> 255
      [] kind = "black" -> 0
      [] kind = "checker" -> IF (x + y) % 2 = 0 THEN 255 ELSE 0
      [] kind = "stripes" -> IF x % 2 = 0 THEN 255 ELSE 0

MakeImage(kind, w, h) ==
    [width |-> w, height |-> h,
     pixels |-> [i \in 1..(w * h) |-> Pixel(kind, (i - 1) % w, (i - 1) \div w)]]

\* image.get_pixel(x, y).0[0]; GrayImage panics on a coordinate outside the image.
get_pixel(image, x, y) ==
    IF x >= image.width \/ y >= image.height
    THEN Panic
    ELSE [kind |-> "Ok", gray |-> image.pixels[y * image.width + x + 1]]

\* Mutant of Extrude: the vertex is moved against its normal.
Extrude_Inward(vertex, normal, depth) ==
    CASE normal.len2 = 1 /\ F32IsInt(depth) -> VSub(vertex, VScale(normal.num, F32ToInt(depth)))

\* vertex + normal * depth, for an axis normal and a depth that is an integer.
Extrude(vertex, normal, depth) ==
    CASE normal.len2 = 1 /\ F32IsInt(depth) -> VAdd(vertex, VScale(normal.num, F32ToInt(depth)))

\* Mutant of PxVertices: the pixel of index i is looked up at (i div W, i mod W).
PxVertices_Transposed(cloud, image, white_depth, black_depth) ==
    LET n == cloud.width * cloud.height
        px(i) == IF image.width = 0 THEN Panic
                 ELSE get_pixel(image, i \div image.width, i % image.width)
    IN IF \E i \in 0..(n - 1) : px(i).kind = "Panic" \/ i + 1 > Len(cloud.vertices)
       THEN Panic
       ELSE [kind |-> "Ok",
             v |-> [k \in 1..n |->
                      Extrude(cloud.vertices[k], cloud.vertex_normals[k],
                              get_px_depth(white_depth, black_depth, px(k - 1).gray))]]

\* The loop of lines 199-202: px_vertices, or the panic of the first failing lookup.
PxVertices(cloud, image, white_depth, black_depth) ==
    LET n == cloud.width * cloud.height
        px(i) == IF image.width = 0 THEN Panic
                 ELSE get_pixel(image, i % image.width, i \div image.width)
    IN IF \E i \in 0..(n - 1) : px(i).kind = "Panic" \/ i + 1 > Len(cloud.vertices)
       THEN Panic
       ELSE [kind |-> "Ok",
             v |-> [k \in 1..n |->
                      Extrude(cloud.vertices[k], cloud.vertex_normals[k],
                              get_px_depth(white_depth, black_depth, px(k - 1).gray))]]

(***************************************************************************)
(* The calls the model makes and the state machine that runs one call.     *)
(***************************************************************************)
Builds == {"debug", "release"}

WhiteDepths == {0, 1}

BlackDepths == {1, 3}

LithophaneCalls ==
    {[fn |-> "generate_lithophane", x_fn |-> xf, y_fn |-> yf, z_fn |-> zf,
      image |-> MakeImage(k, w, h),
      white_depth |-> IntToF32(wd), black_depth |-> IntToF32(bd)] :
        xf \in XExprs, yf \in YExprs, zf \in ZExprs, k \in ImageKinds,
        w \in 0..MaxDim, h \in 0..MaxDim, wd \in WhiteDepths, bd \in BlackDepths}

PreviewCalls ==
    {[fn |-> "generate_preview", x_fn |-> xf, y_fn |-> yf, z_fn |-> zf,
      width |-> w, height |-> h, step |-> st] :
        xf \in XExprs, yf \in YExprs, zf \in ZExprs,
        w \in 0..MaxDim, h \in 0..MaxDim, st \in 0..MaxStep}

NoCloud == [kind |-> "none"]

NoResult == [kind |-> "none"]

Init ==
    /\ build \in Builds
    /\ call \in LithophaneCalls \cup PreviewCalls
    /\ pc = "start"
    /\ point_cloud = NoCloud
    /\ px_vertices = <<>>
    /\ triangles = <<>>
    /\ result = NoResult

\* The function returns early with an error or unwinds with a panic.
Abort(kind) ==
    /\ pc' = "done"
    /\ result' = [kind |-> kind]
    /\ triangles' = <<>>

\* lines 17 and 35: generate_point_cloud(...)?
GeneratePointCloud ==
    /\ pc = "start"
    /\ LET isL == call.fn = "generate_lithophane"
           cloud == generate_point_cloud(call.x_fn, call.y_fn, call.z_fn,
                        IF isL THEN call.image.width ELSE call.width,
                        IF isL THEN call.image.height ELSE call.height,
                        IF isL THEN 1 ELSE call.step, build)
       IN IF cloud.kind = "Ok"
          THEN /\ point_cloud' = cloud
               /\ pc' = IF isL THEN "backing" ELSE "preview"
               /\ UNCHANGED <<triangles, result>>
          ELSE /\ point_cloud' = NoCloud
               /\ Abort(cloud.kind)
    /\ UNCHANGED <<build, call, px_vertices>>

\* One loop of generate_lithophane_mesh: push its triangles and go on, or return.
MeshLoop(at, idseq, next) ==
    /\ pc = at
    /\ LET r == BuildAll(idseq, point_cloud.vertices, px_vertices)
       IN IF r.kind = "Ok"
          THEN /\ triangles' = triangles \o r.triangles
               /\ pc' = next
               /\ UNCHANGED result
          ELSE Abort(r.kind)
    /\ UNCHANGED <<build, call, point_cloud, px_vertices>>

\* lines 181-194
BackingMesh == MeshLoop("backing", BackingIds(point_cloud.width, point_cloud.height), "px")

\* lines 197-202
PixelVertices ==
    /\ pc = "px"
    /\ LET r == PxVertices(point_cloud, call.image, call.white_depth, call.black_depth)
       IN IF r.kind = "Ok"
          THEN /\ px_vertices' = r.v
               /\ pc' = "front"
               /\ UNCHANGED <<triangles, result>>
          ELSE /\ UNCHANGED px_vertices
               /\ Abort(r.kind)
    /\ UNCHANGED <<build, call, point_cloud>>

\* lines 205-218
FrontMesh == MeshLoop("front", FrontIds(point_cloud.width, point_cloud.height), "top")

\* lines 221-232
TopWall == MeshLoop("top", TopWallIds(point_cloud.width, point_cloud.height), "bottom")

\* lines 235-246
BottomWall == MeshLoop("bottom", BottomWallIds(point_cloud.width, point_cloud.height), "left")

\* lines 249-262
LeftWall == MeshLoop("left", LeftWallIds(point_cloud.width, point_cloud.height), "right")

\* lines 265-278
RightWall == MeshLoop("right", RightWallIds(point_cloud.width, point_cloud.height), "return")

\* lines 280 and 19-22: Ok(triangles) wrapped into the StlModel
ReturnModel ==
    /\ pc = "return"
    /\ result' = [kind |-> "Ok", header |-> "", triangles |-> triangles]
    /\ pc' = "done"
    /\ UNCHANGED <<build, call, point_cloud, px_vertices, triangles>>

\* generate_preview, lines 37-62
PreviewMesh ==
    /\ pc = "preview"
    /\ LET r == BuildAll(PreviewIds(point_cloud.width, point_cloud.height),
                         point_cloud.vertices, <<>>)
       IN IF r.kind = "Ok"
          THEN /\ triangles' = r.triangles
               /\ result' = [kind |-> "Ok", header |-> "", triangles |-> r.triangles]
               /\ pc' = "done"
          ELSE Abort(r.kind)
    /\ UNCHANGED <<build, call, point_cloud, px_vertices>>

Next ==
    \/ GeneratePointCloud
    \/ BackingMesh
    \/ PixelVertices
    \/ FrontMesh
    \/ TopWall
    \/ BottomWall
    \/ LeftWall
    \/ RightWall
    \/ ReturnModel
    \/ PreviewMesh

Spec == Init /\ [][Next]_vars

(***************************************************************************)
(* Specifications that apply one pure function to inputs drawn by Init.    *)
(***************************************************************************)
StepIterCalls ==
    {[fn |-> "step_iter_with_size", length |-> l, step |-> st] :
        l \in 0..MaxLen, st \in 0..MaxStepLen}

InitStepIter ==
    /\ build \in Builds
    /\ call \in StepIterCalls
    /\ pc = "start"
    /\ point_cloud = NoCloud
    /\ px_vertices = <<>>
    /\ triangles = <<>>
    /\ result = NoResult

StepIter ==
    /\ pc = "start"
    /\ call.fn = "step_iter_with_size"
    /\ result' = step_iter_with_size(call.length, call.step, build)
    /\ pc' = "done"
    /\ UNCHANGED <<build, call, point_cloud, px_vertices, triangles>>

SpecStepIter == InitStepIter /\ [][StepIter]_vars

Coords == {<<x, y, z>> : x \in 0..MaxCoord, y \in 0..MaxCoord, z \in 0..1}

TriangleCalls ==
    {[fn |-> "three_points_to_triangle", points |-> <<p0, p1, p2>>] :
        p0 \in Coords, p1 \in Coords, p2 \in Coords}

InitTriangle ==
    /\ build = "release"
    /\ call \in TriangleCalls
    /\ pc = "start"
    /\ point_cloud = NoCloud
    /\ px_vertices = <<>>
    /\ triangles = <<>>
    /\ result = NoResult

ThreePoints ==
    /\ pc = "start"
    /\ call.fn = "three_points_to_triangle"
    /\ result' = three_points_to_triangle(call.points)
    /\ pc' = "done"
    /\ UNCHANGED <<build, call, point_cloud, px_vertices, triangles>>

SpecTriangle == InitTriangle /\ [][ThreePoints]_vars

\* f32 depths: 0.0, 0.5, 1.0, 3.0 and 0.1f32 = 13421773 * 2^-27
DepthValues ==
    {F32Zero, [m |-> 8388608, e |-> -24], [m |-> 8388608, e |-> -23],
     [m |-> 12582912, e |-> -22], [m |-> 13421773, e |-> -27]}

DepthCalls ==
    {[fn |-> "get_px_depth", white_depth |-> w, black_depth |-> b, gray_value |-> g] :
        w \in DepthValues, b \in DepthValues, g \in 0..255}

InitDepth ==
    /\ build = "release"
    /\ call \in DepthCalls
    /\ pc = "start"
    /\ point_cloud = NoCloud
    /\ px_vertices = <<>>
    /\ triangles = <<>>
    /\ result = NoResult

PxDepth ==
    /\ pc = "start"
    /\ call.fn = "get_px_depth"
    /\ result' = [kind |-> "Ok",
                  depth |-> get_px_depth(call.white_depth, call.black_depth, call.gray_value)]
    /\ pc' = "done"
    /\ UNCHANGED <<build, call, point_cloud, px_vertices, triangles>>

SpecDepth == InitDepth /\ [][PxDepth]_vars

(***************************************************************************)
(* C4: step_iter_with_size.                                                *)
(***************************************************************************)
Elems(v) == {v[k] : k \in 1..Len(v)}

StrictlyIncreasing(v) == \A k \in 1..(Len(v) - 1) : v[k] < v[k + 1]

StepIterDone ==
    /\ pc = "done"
    /\ call.fn = "step_iter_with_size"
    /\ call.length >= 1
    /\ call.step >= 1

\* C4: for length >= 1 and step >= 1 the index sequence is strictly increasing, starts
\* at -step, holds within [0, length-1] exactly the multiples of step and length-1, and
\* ends with one more index, 2*(length-1) minus the index before length-1, so that the
\* last two gaps are equal; (15, 4) gives -4,0,4,8,12,14,16 and step 1 gives -1..length.
C4_StepIterSequence ==
    StepIterDone =>
        /\ result.kind = "Ok"
        /\ LET v == result.v
               n == Len(v)
               length == call.length
               step == call.step
           IN /\ n >= 3
              /\ StrictlyIncreasing(v)
              /\ v[1] = -step
              /\ \A i \in 0..(length - 1) :
                    (i \in Elems(v)) <=> (i % step = 0 \/ i = length - 1)
              /\ \A k \in 2..(n - 1) : v[k] \in 0..(length - 1)
              /\ v[n - 1] = length - 1
              /\ v[n] = 2 * (length - 1) - v[n - 2]
              /\ v[n] - v[n - 1] = v[n - 1] - v[n - 2]
              /\ v[n] > length - 1
              /\ (length = 15 /\ step = 4) => v = <<-4, 0, 4, 8, 12, 14, 16>>
              /\ step = 1 => v = [k \in 1..(length + 2) |-> k - 2]

\* C4 witness: the documented example, whose last step (12 to 14) is shorter than step.
C4_Witness ==
    /\ StepIterDone
    /\ call.length = 15
    /\ call.step = 4
    /\ result.kind = "Ok"
    /\ result.v = <<-4, 0, 4, 8, 12, 14, 16>>

(***************************************************************************)
(* C5: three_points_to_triangle.                                           *)
(***************************************************************************)
TriangleDone == pc = "done" /\ call.fn = "three_points_to_triangle"

CallCross ==
    cross_product(VSub(call.points[2], call.points[1]), VSub(call.points[3], call.points[1]))

\* C5: three_points_to_triangle fails exactly when cross(p1-p0, p2-p0) is the zero
\* vector; otherwise the triangle keeps p0, p1, p2 in order and its normal has unit
\* length and is a positive multiple of that cross product.
C5_TriangleOrError ==
    TriangleDone =>
        /\ result.kind \in {"Ok", "Err"}
        /\ result.kind = "Err" <=> CallCross = ZeroVec
        /\ result.kind = "Ok" =>
              /\ result.vertices = call.points
              /\ Dot(result.normal.num, result.normal.num) = result.normal.len2
              /\ cross_product(result.normal.num, CallCross) = ZeroVec
              /\ Dot(result.normal.num, CallCross) > 0

\* C5 witness: three distinct points on one line are rejected.
C5_Witness ==
    /\ TriangleDone
    /\ Cardinality({call.points[1], call.points[2], call.points[3]}) = 3
    /\ CallCross = ZeroVec
    /\ result.kind = "Err"

(***************************************************************************)
(* C9: get_px_depth.                                                       *)
(***************************************************************************)
DepthDone == pc = "done" /\ call.fn = "get_px_depth"

F32Abs(a) == [m |-> Abs(a.m), e |-> a.e]

F32Max(a, b) == IF F32Lt(a, b) THEN b ELSE a

F32Between(x, a, b) == (F32Le(a, x) /\ F32Le(x, b)) \/ (F32Le(b, x) /\ F32Le(x, a))

DepthOf(g) == get_px_depth(call.white_depth, call.black_depth, g)

\* C9 as stated: intensity 255 gives exactly white_depth, intensity 0 gives exactly
\* black_depth, and every depth lies between the two.
C9_ExactEndpoints ==
    DepthDone =>
        /\ call.gray_value = 255 => result.depth = call.white_depth
        /\ call.gray_value = 0 => result.depth = call.black_depth
        /\ F32Between(result.depth, call.white_depth, call.black_depth)

\* C9 as amended: intensity 255 gives exactly white_depth; intensity 0 gives the f32 sum
\* white_depth + (black_depth - white_depth), which is within 2^-22 * max(|white_depth|,
\* |black_depth|) of black_depth and is black_depth itself for 0.5 and 3.0; every depth
\* lies between the depths of intensity 0 and 255, moving monotonically (never back
\* towards black_depth) as the intensity increases.
C9_DepthInterpolation ==
    DepthDone =>
        LET w == call.white_depth
            b == call.black_depth
            g == call.gray_value
            d == result.depth
        IN /\ g = 255 => d = w
           /\ g = 0 =>
                 /\ d = F32Add(w, F32Sub(b, w))
                 /\ F32Le(F32Abs(F32Sub(d, b)),
                          F32Mul([m |-> 8388608, e |-> -45], F32Max(F32Abs(w), F32Abs(b))))
                 /\ (w = [m |-> 8388608, e |-> -24] /\ b = [m |-> 12582912, e |-> -22])
                       => d = b
           /\ F32Between(d, DepthOf(0), DepthOf(255))
           /\ g < 255 => F32Between(DepthOf(g + 1), d, DepthOf(255))

\* C9 witness: white_depth 3.0, black_depth 0.1f32 and intensity 0 give 13421760 * 2^-27,
\* thirteen units in the last place below black_depth.
C9_Witness ==
    /\ DepthDone
    /\ call.white_depth = [m |-> 12582912, e |-> -22]
    /\ call.black_depth = [m |-> 13421773, e |-> -27]
    /\ call.gray_value = 0
    /\ result.depth = [m |-> 13421760, e |-> -27]

(***************************************************************************)
(* The mesh claims, C1-C3, C6-C8 and C10, under Spec.                      *)
(***************************************************************************)
IsLithophane == call.fn = "generate_lithophane"

IsPreview == call.fn = "generate_preview"

CallWidth == IF IsLithophane THEN call.image.width ELSE call.width

CallHeight == IF IsLithophane THEN call.image.height ELSE call.height

CallStep == IF IsLithophane THEN 1 ELSE call.step

LithophaneOk == pc = "done" /\ IsLithophane /\ result.kind = "Ok"

PreviewOk == pc = "done" /\ IsPreview /\ result.kind = "Ok"

FullSize == CallWidth >= 2 /\ CallHeight >= 2

Mesh == result.triangles

LayersOf(t) == {t.ids[k][1] : k \in 1..3}

IndicesOf(t) == {t.ids[k][2] : k \in 1..3}

CountWhere(T(_)) == Cardinality({k \in 1..Len(Mesh) : T(Mesh[k])})

IsWall(t) == LayersOf(t) = {"b", "p"}

\* C1: a successful generate_lithophane of a W x H image, W, H >= 2, returns
\* 4(W-1)(H-1) + 4(W-1) + 4(H-1) triangles: 2(W-1)(H-1) backing, 2(W-1)(H-1) front,
\* 2(W-1) on each of the top and bottom walls, 2(H-1) on each of the left and right.
C1_TriangleCount ==
    (LithophaneOk /\ FullSize) =>
        LET W == CallWidth
            H == CallHeight
        IN /\ Len(Mesh) = 4 * (W - 1) * (H - 1) + 4 * (W - 1) + 4 * (H - 1)
           /\ CountWhere(LAMBDA t : LayersOf(t) = {"b"}) = 2 * (W - 1) * (H - 1)
           /\ CountWhere(LAMBDA t : LayersOf(t) = {"p"}) = 2 * (W - 1) * (H - 1)
           /\ CountWhere(LAMBDA t : IsWall(t) /\ \A i \in IndicesOf(t) : i < W)
                 = 2 * (W - 1)
           /\ CountWhere(LAMBDA t : IsWall(t) /\ \A i \in IndicesOf(t) : i >= (H - 1) * W)
                 = 2 * (W - 1)
           /\ CountWhere(LAMBDA t : IsWall(t) /\ \A i \in IndicesOf(t) : i % W = 0)
                 = 2 * (H - 1)
           /\ CountWhere(LAMBDA t : IsWall(t) /\ \A i \in IndicesOf(t) : i % W = W - 1)
                 = 2 * (H - 1)

\* C1 witness: a mesh returned for an image that is wider than high.
C1_Witness == LithophaneOk /\ CallWidth = 3 /\ CallHeight = 2 /\ Len(Mesh) = 20

Edges(t) == {{t.ids[1], t.ids[2]}, {t.ids[2], t.ids[3]}, {t.ids[3], t.ids[1]}}

DirEdges(t) == {<<t.ids[1], t.ids[2]>>, <<t.ids[2], t.ids[3]>>, <<t.ids[3], t.ids[1]>>}

\* C2: the mesh of a successful generate_lithophane, W, H >= 2, is closed: every edge of
\* a triangle joins two distinct vertices and is an edge of exactly two triangles.
C2_Watertight ==
    (LithophaneOk /\ FullSize) =>
        \A k \in 1..Len(Mesh) : \A e \in Edges(Mesh[k]) :
            /\ Cardinality(e) = 2
            /\ Cardinality({j \in 1..Len(Mesh) : e \in Edges(Mesh[j])}) = 2

\* C2 witness: a returned mesh in which an interior backing vertex exists (3 x 3).
C2_Witness ==
    /\ LithophaneOk
    /\ CallWidth = 3
    /\ CallHeight = 3
    /\ \E k \in 1..Len(Mesh) : B(4) \in {Mesh[k].ids[i] : i \in 1..3}

Reversed(a, b) ==
    \/ b = <<a[1], a[3], a[2]>>
    \/ b = <<a[3], a[2], a[1]>>
    \/ b = <<a[2], a[1], a[3]>>

IndexTriple(t) == <<t.ids[1][2], t.ids[2][2], t.ids[3][2]>>

\* C3: the mesh is consistently oriented: the front triangle on the vertices of a
\* backing triangle has the reverse winding, and every directed edge of a triangle is
\* in exactly one triangle and its reverse in exactly one triangle.
C3_Orientation ==
    (LithophaneOk /\ FullSize) =>
        /\ \A k \in 1..Len(Mesh) :
              LayersOf(Mesh[k]) = {"b"} =>
                  /\ Cardinality({j \in 1..Len(Mesh) :
                                     /\ LayersOf(Mesh[j]) = {"p"}
                                     /\ IndicesOf(Mesh[j]) = IndicesOf(Mesh[k])}) = 1
                  /\ \A j \in 1..Len(Mesh) :
                        (LayersOf(Mesh[j]) = {"p"} /\ IndicesOf(Mesh[j]) = IndicesOf(Mesh[k]))
                            => Reversed(IndexTriple(Mesh[k]), IndexTriple(Mesh[j]))
        /\ \A k \in 1..Len(Mesh) : \A d \in DirEdges(Mesh[k]) :
              /\ Cardinality({j \in 1..Len(Mesh) : d \in DirEdges(Mesh[j])}) = 1
              /\ Cardinality({j \in 1..Len(Mesh) : <<d[2], d[1]>> \in DirEdges(Mesh[j])}) = 1

\* C3 witness: a returned mesh with a backing edge that a wall triangle runs back along.
C3_Witness ==
    /\ LithophaneOk
    /\ FullSize
    /\ \E k, j \in 1..Len(Mesh) :
          /\ LayersOf(Mesh[k]) = {"b"}
          /\ IsWall(Mesh[j])
          /\ \E d \in DirEdges(Mesh[k]) : <<d[2], d[1]>> \in DirEdges(Mesh[j])

\* What the call computes, restated from its inputs: the point cloud, the pixel
\* vertices and the vertex triples the loops visit.
CallCloud ==
    generate_point_cloud(call.x_fn, call.y_fn, call.z_fn, CallWidth, CallHeight,
                         CallStep, build)

CallPx(cloud) ==
    IF IsLithophane
    THEN PxVertices(cloud, call.image, call.white_depth, call.black_depth).v
    ELSE <<>>

CallIds(cloud) ==
    IF IsLithophane
    THEN BackingIds(cloud.width, cloud.height) \o FrontIds(cloud.width, cloud.height)
         \o TopWallIds(cloud.width, cloud.height) \o BottomWallIds(cloud.width, cloud.height)
         \o LeftWallIds(cloud.width, cloud.height) \o RightWallIds(cloud.width, cloud.height)
    ELSE PreviewIds(cloud.width, cloud.height)

Collinear(ids, verts, px) ==
    cross_product(VSub(Point(ids[2], verts, px), Point(ids[1], verts, px)),
                  VSub(Point(ids[3], verts, px), Point(ids[1], verts, px))) = ZeroVec

MeshCallDone == pc = "done" /\ (IsLithophane \/ IsPreview)

\* C6: generation is all-or-nothing: a call that ends with the degenerate-geometry error
\* returns no triangles and does so exactly when a vertex normal or one of its triangles
\* is degenerate; a returned mesh holds every triangle of the call, in order, none
\* degenerate.
C6_AllOrNothing ==
    (MeshCallDone /\ result.kind # "Panic") =>
        LET cloud == CallCloud
        IN /\ result.kind \in {"Ok", "Err"}
           /\ result.kind = "Err" =>
                 /\ DOMAIN result = {"kind"}
                 /\ \/ cloud.kind = "Err"
                    \/ \E k \in 1..Len(CallIds(cloud)) :
                          Collinear(CallIds(cloud)[k], cloud.vertices, CallPx(cloud))
           /\ result.kind = "Ok" =>
                 /\ cloud.kind = "Ok"
                 /\ Len(Mesh) = Len(CallIds(cloud))
                 /\ \A k \in 1..Len(Mesh) :
                       LET ids == CallIds(cloud)[k]
                       IN /\ ~Collinear(ids, cloud.vertices, CallPx(cloud))
                          /\ Mesh[k].ids = ids
                          /\ Mesh[k].vertices =
                                [i \in 1..3 |-> Point(ids[i], cloud.vertices, CallPx(cloud))]

\* C6 witness: a wall triangle is degenerate after the backing and front triangles were
\* built, and the call returns the error alone.
C6_Witness ==
    /\ pc = "done"
    /\ IsLithophane
    /\ FullSize
    /\ result = InvalidPointsError
    /\ point_cloud.kind = "Ok"
    /\ px_vertices # <<>>

\* C7: generate_preview fails with the degenerate-geometry error only if one of its own
\* triangles, built from the interior samples, is degenerate.
C7_PreviewSkipsNormals ==
    (pc = "done" /\ IsPreview /\ result.kind = "Err") =>
        LET wr == step_iter_with_size(call.width, call.step, build).v
            hr == step_iter_with_size(call.height, call.step, build).v
            interior == StripBorder(GridVertices(call.x_fn, call.y_fn, call.z_fn,
                                                 call.width, call.height, wr, hr),
                                    Len(wr), Len(hr))
            ids == PreviewIds(Len(wr) - 2, Len(hr) - 2)
        IN \E k \in 1..Len(ids) : Collinear(ids[k], interior, <<>>)

Faces(ts) == [k \in 1..Len(ts) |-> [normal |-> ts[k].normal, vertices |-> ts[k].vertices]]

Flip(ts) ==
    [k \in 1..Len(ts) |->
        [normal |-> [num |-> VScale(ts[k].normal.num, -1), len2 |-> ts[k].normal.len2],
         vertices |-> <<ts[k].vertices[1], ts[k].vertices[3], ts[k].vertices[2]>>]]

\* The backing triangles generate_lithophane_mesh builds from the point cloud (181-194).
BackingOf(cloud) ==
    BuildAll(BackingIds(cloud.width, cloud.height), cloud.vertices, <<>>).triangles

PreviewStepOne == PreviewOk /\ call.step = 1 /\ point_cloud.kind = "Ok"

\* C8 as stated: for step 1 the preview triangles are the backing triangles of the full
\* lithophane, with the same vertex order and the same normals.
C8_PreviewIsBacking ==
    PreviewStepOne => Faces(Mesh) = Faces(BackingOf(point_cloud))

\* C8 as amended: for step 1 the preview triangles are, block by block, the backing
\* triangles of the full lithophane on the same three vertices with the second and third
\* vertex exchanged, so with the reverse winding (that of the front mesh) and the
\* opposite face normal.
C8_PreviewIsBackingReversed ==
    PreviewStepOne => Faces(Mesh) = Flip(BackingOf(point_cloud))

\* C8 witness: a preview of step 1 with at least one block.
C8_Witness == PreviewStepOne /\ FullSize /\ Len(Mesh) >= 2

\* C10: for the surface X = x, Y = y, Z = 0 and a width or height of 0 or 1,
\* generate_lithophane and generate_preview return a mesh with zero triangles.
C10_DegenerateSizesEmpty ==
    (/\ MeshCallDone
     /\ call.x_fn = "x" /\ call.y_fn = "y" /\ call.z_fn = "0"
     /\ CallStep >= 1
     /\ (CallWidth <= 1 \/ CallHeight <= 1))
        => (result.kind = "Ok" /\ Len(result.triangles) = 0)

(***************************************************************************)
(* The preview resolution, C11, under Spec.                                *)
(***************************************************************************)
\* generate_preview of the call's surface and size with another step.
PreviewWithStep(st) ==
    LET cloud == generate_point_cloud(call.x_fn, call.y_fn, call.z_fn, call.width,
                                      call.height, st, build)
    IN IF cloud.kind # "Ok"
       THEN cloud
       ELSE BuildAll(PreviewIds(cloud.width, cloud.height), cloud.vertices, <<>>)

\* The surface sample at grid index (x_i, y_i) of the call.
Sample(x_i, y_i) ==
    <<Eval(call.x_fn, x_i, y_i, CallWidth, CallHeight),
      Eval(call.y_fn, x_i, y_i, CallWidth, CallHeight),
      Eval(call.z_fn, x_i, y_i, CallWidth, CallHeight)>>

PreviewSized == PreviewOk /\ call.width >= 1 /\ call.height >= 1 /\ call.step >= 1

\* C11: a successful generate_preview with width, height, step >= 1 returns exactly
\* 2(W'-1)(H'-1) triangles, W' and H' being the lengths of the two index sequences less
\* the two border indices; the interior samples are those of the index sequences in
\* row-major order, the first interior column being 0 and the last width-1 (rows: 0 and
\* height-1); and it returns no more triangles than the same preview with a smaller step.
C11_PreviewResolution ==
    PreviewSized =>
        LET wr == step_iter_with_size(call.width, call.step, build).v
            hr == step_iter_with_size(call.height, call.step, build).v
            W1 == Len(wr) - 2
            H1 == Len(hr) - 2
        IN /\ Len(Mesh) = 2 * (W1 - 1) * (H1 - 1)
           /\ point_cloud.width = W1
           /\ point_cloud.height = H1
           /\ wr[2] = 0
           /\ wr[W1 + 1] = call.width - 1
           /\ hr[2] = 0
           /\ hr[H1 + 1] = call.height - 1
           /\ point_cloud.vertices =
                 [k \in 1..(W1 * H1) |->
                     Sample(wr[((k - 1) % W1) + 2], hr[((k - 1) \div W1) + 2])]
           /\ \A st \in 1..(call.step - 1) :
                 PreviewWithStep(st).kind = "Ok" =>
                     Len(Mesh) <= Len(PreviewWithStep(st).triangles)

\* C11 witness: a 3 x 2 preview of step 2, whose last row is the snapped index 1, with
\* fewer triangles than the preview of step 1.
C11_Witness ==
    /\ PreviewSized
    /\ call.width = 3
    /\ call.height = 2
    /\ call.step = 2
    /\ Len(Mesh) = 2
    /\ PreviewWithStep(1).kind = "Ok"
    /\ Len(PreviewWithStep(1).triangles) = 4

(***************************************************************************)
(* The planar backing under a uniform image, C12, under Spec.              *)
(***************************************************************************)
PlanarBacking == call.x_fn = "x" /\ call.y_fn = "y" /\ call.z_fn = "0"

UniformImage ==
    \A i, j \in 1..Len(call.image.pixels) : call.image.pixels[i] = call.image.pixels[j]

PlanarUniformDone == pc = "done" /\ IsLithophane /\ FullSize /\ PlanarBacking /\ UniformImage

\* The depth get_px_depth computes for the one intensity of a uniform image.
UniformDepth == get_px_depth(call.white_depth, call.black_depth, call.image.pixels[1])

AxisUp == [num |-> <<0, 0, 1>>, len2 |-> 1]

AxisDown == [num |-> <<0, 0, -1>>, len2 |-> 1]

\* The backing triangles lie in the plane with normal (0,0,+1), every vertex normal is
\* (0,0,-1), and every pixel vertex is its backing vertex moved by the depth along it.
PlanarGeometry ==
    LET d == F32ToInt(UniformDepth)
        n == Len(point_cloud.vertices)
    IN /\ F32IsInt(UniformDepth)
       /\ n = CallWidth * CallHeight
       /\ point_cloud.vertex_normals = [k \in 1..n |-> AxisDown]
       /\ px_vertices = [k \in 1..n |-> VAdd(point_cloud.vertices[k], <<0, 0, -d>>)]
       /\ result.kind = "Ok" =>
             \A k \in 1..Len(Mesh) :
                /\ LayersOf(Mesh[k]) = {"b"} => Mesh[k].normal = AxisUp
                /\ LayersOf(Mesh[k]) = {"p"} =>
                      /\ Mesh[k].normal = AxisDown
                      /\ \E j \in 1..Len(Mesh) :
                            /\ LayersOf(Mesh[j]) = {"b"}
                            /\ IndicesOf(Mesh[j]) = IndicesOf(Mesh[k])
                      /\ \A i \in 1..3 :
                            Mesh[k].vertices[i] =
                                VAdd(point_cloud.vertices[Mesh[k].ids[i][2] + 1], <<0, 0, -d>>)

\* C12 as stated: for the planar backing X = x, Y = y, Z = 0 and a uniform image, W, H >= 2,
\* generate_lithophane succeeds, the backing normals and the vertex normals are (0,0,+-1)
\* and the front is the backing moved along the axis by the depth of the intensity.
C12_PlanarUniformSucceeds ==
    PlanarUniformDone => (result.kind = "Ok" /\ PlanarGeometry)

\* C12 as amended: the same geometry, but generate_lithophane succeeds exactly when the
\* depth of the intensity is not zero; at depth zero every pixel vertex is its backing
\* vertex, the wall triangles are degenerate and the call returns the error.
C12_PlanarUniform ==
    PlanarUniformDone =>
        /\ PlanarGeometry
        /\ UniformDepth # F32Zero => result.kind = "Ok"
        /\ UniformDepth = F32Zero => (result = InvalidPointsError /\ px_vertices = point_cloud.vertices)

\* C12 witness: a black 3 x 2 image with white depth 0 and black depth 3, whose front is
\* the backing moved by 3.
C12_Witness ==
    /\ PlanarUniformDone
    /\ result.kind = "Ok"
    /\ CallWidth = 3
    /\ CallHeight = 2
    /\ call.image.pixels[1] = 0
    /\ UniformDepth = IntToF32(3)
    /\ px_vertices[1] = <<0, 0, -3>>

(***************************************************************************)
(* The point cloud and the pixel vertices of generate_lithophane, C13,     *)
(* under Spec.                                                             *)
(***************************************************************************)
\* The normal estimated at grid index (x_i, y_i) from its four neighbouring samples.
SampleNormal(x_i, y_i) ==
    LET v == Sample(x_i, y_i)
        norm1 == normalize_to_unit_vector(cross_product(VSub(Sample(x_i, y_i + 1), v),
                                                        VSub(Sample(x_i + 1, y_i), v)))
        norm2 == normalize_to_unit_vector(cross_product(VSub(Sample(x_i, y_i - 1), v),
                                                        VSub(Sample(x_i - 1, y_i), v)))
        n == normalize_to_unit_vector(UnitSum(norm1, norm2))
    IN [num |-> n.num, len2 |-> n.len2]

LithophaneCloud == IsLithophane /\ point_cloud.kind = "Ok"

\* C13: in generate_lithophane for a W x H image the point cloud holds W*H vertices and
\* W*H normals, both row-major over the image grid with no border sample; the pixel
\* vertex of index y*W + x is the surface sample at (x, y) plus the normal estimated at
\* that sample times the depth of image pixel (x, y), the pixel of index y*W + x of the
\* image's row-major data; and every lookup (i mod W, i div W)
\* is inside the image, so that the call never panics once the point cloud exists.
C13_PointCloudAndPixels ==
    LET W == CallWidth
        H == CallHeight
    IN /\ LithophaneCloud =>
             /\ point_cloud.width = W
             /\ point_cloud.height = H
             /\ Len(point_cloud.vertices) = W * H
             /\ Len(point_cloud.vertex_normals) = W * H
             /\ \A x \in 0..(W - 1) : \A y \in 0..(H - 1) :
                   /\ point_cloud.vertices[y * W + x + 1] = Sample(x, y)
                   /\ point_cloud.vertex_normals[y * W + x + 1] = SampleNormal(x, y)
             /\ \A i \in 0..(W * H - 1) : get_pixel(call.image, i % W, i \div W).kind = "Ok"
             /\ result.kind # "Panic"
             /\ pc \in {"front", "top", "bottom", "left", "right", "return"} =>
                   px_vertices # <<>>
       /\ (LithophaneCloud /\ px_vertices # <<>>) =>
             /\ Len(px_vertices) = W * H
             /\ \A x \in 0..(W - 1) : \A y \in 0..(H - 1) :
                   px_vertices[y * W + x + 1] =
                       Extrude(Sample(x, y), SampleNormal(x, y),
                               get_px_depth(call.white_depth, call.black_depth,
                                            call.image.pixels[y * W + x + 1]))

\* C13 witness: a striped 3 x 2 image over X = x, Y = y: pixel (1, 1) is black, and its
\* vertex, of index 4, is the sample (1, 1, 0) moved by the black depth 3 along (0,0,-1).
C13_Witness ==
    /\ LithophaneCloud
    /\ PlanarBacking
    /\ CallWidth = 3
    /\ CallHeight = 2
    /\ call.image.pixels = <<255, 0, 255, 255, 0, 255>>
    /\ call.black_depth = IntToF32(3)
    /\ Len(point_cloud.vertices) = 6
    /\ px_vertices # <<>>
    /\ px_vertices[5] = <<1, 1, -3>>
    /\ px_vertices[4] # <<0, 1, -3>>

(***************************************************************************)
(* The normal estimator, C14, under Spec.                                  *)
(***************************************************************************)
WidthRange == step_iter_with_size(CallWidth, CallStep, build)

HeightRange == step_iter_with_size(CallHeight, CallStep, build)

\* The call got past both index sequences, so the bordered grid exists.
GridBuilt ==
    /\ pc # "start"
    /\ IsLithophane \/ IsPreview
    /\ WidthRange.kind = "Ok"
    /\ HeightRange.kind = "Ok"

EW == Len(WidthRange.v)

EH == Len(HeightRange.v)

\* grid[r][c], r and c 0-based, and whether (r, c) is an entry of the grid.
Grid(r, c) == Sample(WidthRange.v[c + 1], HeightRange.v[r + 1])

InGrid(r, c) == r \in 0..(EH - 1) /\ c \in 0..(EW - 1)

\* The two cross products at interior position (x, y).
CrossBelowRight(x, y) ==
    LET v == Grid(y + 1, x + 1)
    IN cross_product(VSub(Grid(y + 2, x + 1), v), VSub(Grid(y + 1, x + 2), v))

CrossAboveLeft(x, y) ==
    LET v == Grid(y + 1, x + 1)
    IN cross_product(VSub(Grid(y, x + 1), v), VSub(Grid(y + 1, x), v))

EstimateSum(x, y) ==
    UnitSum(normalize_to_unit_vector(CrossBelowRight(x, y)),
            normalize_to_unit_vector(CrossAboveLeft(x, y)))

DegenerateAt(x, y) ==
    \/ CrossBelowRight(x, y) = ZeroVec
    \/ CrossAboveLeft(x, y) = ZeroVec
    \/ EstimateSum(x, y) = ZeroVec

\* C14: on a bordered grid of EW x EH samples the estimator reads only entries of the
\* grid; it fails with the degenerate-geometry error, and the call with it, exactly when
\* at some interior position one of the two cross products is the zero vector or the two
\* unit estimates sum to the zero vector; otherwise it produces (EW-2)(EH-2) normals, the
\* one of interior position (x, y) being
\* normalize(normalize(cross(below, right)) + normalize(cross(above, left))).
C14_NormalEstimator ==
    GridBuilt =>
        LET degenerate == \E x \in 0..(EW - 3) : \E y \in 0..(EH - 3) : DegenerateAt(x, y)
        IN /\ EW >= 3
           /\ EH >= 3
           /\ \A x \in 0..(EW - 3) : \A y \in 0..(EH - 3) :
                 /\ InGrid(y + 1, x + 1)
                 /\ InGrid(y + 2, x + 1)
                 /\ InGrid(y + 1, x + 2)
                 /\ InGrid(y, x + 1)
                 /\ InGrid(y + 1, x)
           /\ degenerate <=> point_cloud = NoCloud
           /\ degenerate => (pc = "done" /\ result = InvalidPointsError)
           /\ ~degenerate =>
                 /\ point_cloud.kind = "Ok"
                 /\ Len(point_cloud.vertex_normals) = (EW - 2) * (EH - 2)
                 /\ \A x \in 0..(EW - 3) : \A y \in 0..(EH - 3) :
                       LET n == normalize_to_unit_vector(EstimateSum(x, y))
                       IN point_cloud.vertex_normals[y * (EW - 2) + x + 1] =
                              [num |-> n.num, len2 |-> n.len2]

\* C14 witness: on X = x, Y = y*y the samples above and below row 0 coincide, both cross
\* products at (0, 0) are non-zero, the two unit estimates cancel and the call fails.
C14_Witness ==
    /\ GridBuilt
    /\ call.x_fn = "x"
    /\ call.y_fn = "y*y"
    /\ CallStep = 1
    /\ CrossBelowRight(0, 0) = <<0, 0, -1>>
    /\ CrossAboveLeft(0, 0) = <<0, 0, 1>>
    /\ EstimateSum(0, 0) = ZeroVec
    /\ result = InvalidPointsError

====
